---- MODULE Spec2Model ----
(***************************************************************************)
(* Control-props toggle (src/src/exercise/06.js).                          *)
(*                                                                         *)
(* Four specifications share the operators that model the hook:            *)
(*   Spec     one useToggle instance driven by an arbitrary caller: the    *)
(*            caller re-renders it with any configuration and calls the    *)
(*            functions of the returned handle;                            *)
(*   SpecApp  the App component: two Toggle instances bound to `bothOn`,    *)
(*            one uncontrolled Toggle, the click counter and the Reset     *)
(*            button;                                                      *)
(*   SpecReducer  toggleReducer called directly with any action;           *)
(*   SpecBuilds   one instance run twice, in a development and in a        *)
(*            production build, by the same renders and calls.             *)
(*                                                                         *)
(* JavaScript values: a boolean is a TLA+ boolean; a value that may be     *)
(* undefined/null is a sequence of length at most one (None, Some(v)).     *)
(* React: a dispatch made inside an event handler is queued and applied by *)
(* the next render; the functions of the handle read the values of the     *)
(* render that created them; effects run after the render, on mount and    *)
(* whenever one of their dependencies changed.                             *)
(***************************************************************************)
EXTENDS Integers, Sequences, FiniteSets, TLC

\* ------------------------------------------------------------------ bounds
\* toggle()/reset() calls one event pass may make before the next render
MaxCallsPerPass == 2
\* toggle() calls counted on one instance of Spec
MaxToggles == 3
\* direct calls of toggleReducer in one run of SpecReducer
MaxReduces == 6

\* ------------------------------------------------------- JavaScript values
None == <<>>
Some(v) == <<v>>
OptionOf(S) == {None} \cup {Some(v) : v \in S}
\* `x != null`
NotNullish(x) == x # None
\* truthiness of an optional boolean (`!readOnly`, `!onChange`)
Truthy(x) == x # None /\ x[1] # FALSE

Range(s) == {s[i] : i \in 1..Len(s)}

\* ------------------------------------------------------------ lines 8-11
\* The handlers invoked last to first.
callAll_Reversed(fns) ==
  LET kept == SelectSeq(fns, LAMBDA fn : fn # None)
  IN [i \in 1..Len(kept) |-> kept[Len(kept) + 1 - i]]

\* callAll(...fns)(...args): the handlers actually invoked, in order
\* (`fn?.(...args)` skips an undefined handler).
callAll(fns) == SelectSeq(fns, LAMBDA fn : fn # None)

\* ----------------------------------------------------------- lines 13-16
actionTypes == [toggle |-> "toggle", reset |-> "reset"]

\* ----------------------------------------------------------- lines 18-30
\* The value that stands for `throw new Error(`Unsupported type: ...`)`.
Thrown(type) == [thrown |-> "Unsupported type", type |-> type]
IsThrown(x) == "thrown" \in DOMAIN x

\* A reducer whose toggle switches on instead of flipping.
toggleReducer_NoFlip(state, action) ==
  CASE action.type = actionTypes.toggle -> [on |-> TRUE]
    [] action.type = actionTypes.reset -> action.initialState
    [] OTHER -> Thrown(action.type)

\* A reducer that returns the state unchanged for an unknown tag.
toggleReducer_IgnoresUnknown(state, action) ==
  CASE action.type = actionTypes.toggle -> [on |-> ~state.on]
    [] action.type = actionTypes.reset -> action.initialState
    [] OTHER -> state

toggleReducer(state, action) ==
  CASE action.type = actionTypes.toggle -> [on |-> ~state.on]
    [] action.type = actionTypes.reset -> action.initialState
    [] OTHER -> Thrown(action.type)

\* A caller-supplied reducer (the `reducer` option, line 90): it vetoes
\* every requested change.
customReducer(state, action) == state

Reducers == {"toggleReducer", "customReducer"}

Reduce(reducer, state, action) ==
  IF reducer = "toggleReducer" THEN toggleReducer(state, action)
  ELSE customReducer(state, action)

\* ----------------------------------------------------------- lines 88-94
\* The options object useToggle is called with.
Callbacks == {"f"}
PropsSet ==
  [initialOn : OptionOf(BOOLEAN), reducer : Reducers,
   onChange : OptionOf(Callbacks), on : OptionOf(BOOLEAN),
   readOnly : OptionOf(BOOLEAN)]

\* `initialOn = false`
initialOnOf(p) == IF p.initialOn = None THEN FALSE ELSE p.initialOn[1]

\* line 98
onIsControlled(p) == NotNullish(p.on)

\* line 115
onOf(p, state) == IF onIsControlled(p) THEN p.on[1] ELSE state.on

\* ----------------------------------------------------------- lines 32-55
SwitchToControlled == "uncontrolled to controlled"
SwitchToUncontrolled == "controlled to uncontrolled"
ReadOnlyWarning == "read-only"

\* The two warning() calls of the effect.
controlledSwitchWarnings(isControlled, wasControlled) ==
  (IF isControlled /\ ~wasControlled THEN <<SwitchToControlled>> ELSE <<>>)
  \o (IF ~isControlled /\ wasControlled THEN <<SwitchToUncontrolled>> ELSE <<>>)

\* line 53: the effect's dependencies
controlledSwitchDeps(p, wasControlled) ==
  <<"useToggle", "on", onIsControlled(p), wasControlled>>

\* An effect with no dependency list: it runs after every render.
useControlledSwitchWarning_NoDeps(nodeEnv, mount, prev, prevWas, p, wasControlled) ==
  IF nodeEnv = "production" THEN <<>>
  ELSE controlledSwitchWarnings(onIsControlled(p), wasControlled)

\* A hook that does not look at process.env.NODE_ENV.
useControlledSwitchWarning_NoEnvCheck(nodeEnv, mount, prev, prevWas, p, wasControlled) ==
  IF mount \/ controlledSwitchDeps(prev, prevWas)
                # controlledSwitchDeps(p, wasControlled)
  THEN controlledSwitchWarnings(onIsControlled(p), wasControlled)
  ELSE <<>>

\* What the hook emits in one render. `mount` is the first render; `prev`
\* and `prevWas` are the configuration and the ref of the previous render.
useControlledSwitchWarning(nodeEnv, mount, prev, prevWas, p, wasControlled) ==
  IF nodeEnv = "production" THEN <<>>
  ELSE IF mount \/ controlledSwitchDeps(prev, prevWas)
                     # controlledSwitchDeps(p, wasControlled)
       THEN controlledSwitchWarnings(onIsControlled(p), wasControlled)
       ELSE <<>>

\* ----------------------------------------------------------- lines 57-86
\* A warning that does not look at readOnly.
onChangeReadOnlyWarnings_IgnoresReadOnly(isControlled, onChange, readOnly) ==
  IF isControlled /\ ~NotNullish(onChange) THEN <<ReadOnlyWarning>> ELSE <<>>

onChangeReadOnlyWarnings(isControlled, onChange, readOnly) ==
  IF isControlled /\ ~NotNullish(onChange) /\ ~Truthy(readOnly)
  THEN <<ReadOnlyWarning>> ELSE <<>>

\* lines 75-84: the effect's dependencies
onChangeReadOnlyDeps(p) ==
  <<"useToggle", "on", onIsControlled(p), p.onChange, "onChange",
    p.readOnly, "readOnly", "initialOn">>

useOnChangeReadOnlyWarning(nodeEnv, mount, prev, p) ==
  IF nodeEnv = "production" THEN <<>>
  ELSE IF mount \/ onChangeReadOnlyDeps(prev) # onChangeReadOnlyDeps(p)
       THEN onChangeReadOnlyWarnings(onIsControlled(p), p.onChange, p.readOnly)
       ELSE <<>>

\* The warnings of one render, in the order the effects were declared
\* (lines 100-113).
renderWarnings(nodeEnv, mount, prev, prevWas, p, wasControlled) ==
  useOnChangeReadOnlyWarning(nodeEnv, mount, prev, p)
  \o useControlledSwitchWarning(nodeEnv, mount, prev, prevWas, p, wasControlled)

\* ------------------------------------------------------ lines 40 and 95
\* A ref re-derived by every render.
useRef_Reinit(mount, current, initialValue) == initialValue

\* React.useRef(initialValue).current: the value of the first render, kept
\* by every later one.
useRef(mount, current, initialValue) == IF mount THEN initialValue ELSE current

\* ---------------------------------------------------------- lines 95-96
\* useReducer: the queued actions are applied, in order, by the reducer of
\* the render that processes them.
RECURSIVE applyQueue(_, _, _)
applyQueue(reducer, state, q) ==
  IF q = <<>> THEN state
  ELSE applyQueue(reducer, Reduce(reducer, state, Head(q)), Tail(q))

\* --------------------------------------------------------- lines 117-123
\* dispatchWithOnChange(action) in a render with configuration p and
\* reducer state `state`: the actions it dispatches and the onChange calls
\* it makes.

\* A dispatch made in controlled mode too.
dispatched_Always(p, action) == <<action>>

\* A dispatch made in controlled mode only.
dispatched_Inverted(p, action) == IF onIsControlled(p) THEN <<action>> ELSE <<>>

\* lines 118-120
dispatched(p, action) == IF ~onIsControlled(p) THEN <<action>> ELSE <<>>

\* A new state computed from the raw reducer state, not the effective on.
newStateOf_RawState(p, state, action) == Reduce(p.reducer, state, action)

\* line 121
newStateOf(p, state, action) ==
  Reduce(p.reducer, [state EXCEPT !.on = onOf(p, state)], action)

\* A change callback invoked only by a controlled instance.
onChangeCalls_WhenControlled(p, state, action) ==
  IF NotNullish(p.onChange) /\ onIsControlled(p)
  THEN <<[state |-> newStateOf(p, state, action), action |-> action]>>
  ELSE <<>>

\* lines 121-122
onChangeCalls(p, state, action) ==
  IF NotNullish(p.onChange) /\ ~IsThrown(newStateOf(p, state, action))
  THEN <<[state |-> newStateOf(p, state, action), action |-> action]>>
  ELSE <<>>

\* line 121: the call of the reducer, made whatever the mode and whether or
\* not a change callback was supplied.
reducerCalls(p, state, action) ==
  <<[action |-> action, result |-> newStateOf(p, state, action)]>>

dispatchWithOnChange(p, state, action) ==
  [dispatch |-> dispatched(p, action),
   reduced |-> reducerCalls(p, state, action),
   onChange |-> onChangeCalls(p, state, action)]

\* --------------------------------------------------------- lines 125-127
toggle(p, state) == dispatchWithOnChange(p, state, [type |-> actionTypes.toggle])

\* A reset that re-derives the initial state from the current options.
reset_FromOptions(p, state, initialState) ==
  dispatchWithOnChange(p, state,
                       [type |-> actionTypes.reset,
                        initialState |-> [on |-> initialOnOf(p)]])

reset(p, state, initialState) ==
  dispatchWithOnChange(p, state,
                       [type |-> actionTypes.reset, initialState |-> initialState])

\* --------------------------------------------------------- lines 129-142
\* The onClick of the returned bundle: callAll(onClick, toggle).
getTogglerProps(onClick) == callAll(<<onClick, Some("toggle")>>)
getResetterProps(onClick) == callAll(<<onClick, Some("reset")>>)

\* One invocation of a combined handler: every handler in turn. The
\* caller's own handler changes nothing of the instance.
NoEffect == [dispatch |-> <<>>, reduced |-> <<>>, onChange |-> <<>>, invoked |-> <<>>]

RECURSIVE invokeAll(_, _, _, _, _)
invokeAll(fns, p, state, initialState, acc) ==
  IF fns = <<>> THEN acc
  ELSE LET fn == Head(fns)[1]
           r == IF fn = "toggle" THEN toggle(p, state)
                ELSE IF fn = "reset" THEN reset(p, state, initialState)
                ELSE [dispatch |-> <<>>, reduced |-> <<>>, onChange |-> <<>>]
       IN invokeAll(Tail(fns), p, state, initialState,
                    [dispatch |-> acc.dispatch \o r.dispatch,
                     reduced |-> acc.reduced \o r.reduced,
                     onChange |-> acc.onChange \o r.onChange,
                     invoked |-> Append(acc.invoked, fn)])

\* ====================================================================
\* Spec: one useToggle instance and its caller
\* ====================================================================
VARIABLES
  nodeEnv,        \* process.env.NODE_ENV, fixed for the run (lines 37, 67)
  props,          \* the options of the last render (lines 88-94)
  initialState,   \* React.useRef({on: initialOn}).current (line 95)
  state,          \* the useReducer state as of the last render (line 96)
  wasControlled,  \* React.useRef(isControlled).current (line 40)
  queue,          \* actions dispatched since the last render (line 119)
  emitted,        \* the warnings emitted by the last render's effects
  lastCall,       \* the last call made on the handle since the last render
  firstRender,    \* history: [on, controlled] as resolved by the first render
  onlyToggled,    \* history: always uncontrolled with the default reducer,
                  \*          and every call so far was a toggle()
  toggleCount     \* history: the toggle() calls made so far while
                  \*          onlyToggled holds (0 once it no longer does)

instanceVars ==
  <<nodeEnv, props, initialState, state, wasControlled, queue, emitted,
    lastCall, firstRender, onlyToggled, toggleCount>>

\* The state of the App component (SpecApp); Spec leaves it alone.
VARIABLES
  bothOn,        \* React.useState(false) (line 164)
  timesClicked,  \* React.useState(0) (line 165)
  toggles,       \* the hooks of the three Toggle instances, in render order:
                 \* [initialState, state, wasControlled]
  appEmitted,    \* per instance, the warnings of the last update cycle
  lastClick      \* the last click and what the instances reported before it

appVars == <<bothOn, timesClicked, toggles, appEmitted, lastClick>>

\* A caller of toggleReducer (SpecReducer); Spec and SpecApp leave it alone.
VARIABLES
  redState,  \* the state the caller holds (line 18, first argument)
  redLast,   \* the last call: its arguments and what came out of it
  redCount   \* the calls made so far

reducerVars == <<redState, redLast, redCount>>

\* The same instance in both builds (SpecBuilds).
VARIABLES
  builds     \* per NODE_ENV, the hooks of the instance: [props,
             \* initialState, state, wasControlled, queue, emitted, onChange]

vars == <<instanceVars, appVars, reducerVars, builds>>

NodeEnvs == {"development", "production"}
OnClicks == {"g"}

NoCall == [via |-> "none", onClick |-> None, invoked |-> <<>>, reduced |-> <<>>,
           onChange |-> <<>>]

\* The reported `on` of the instance (line 145).
on == onOf(props, state)

\* lines 88-151, first render with the options p
InitInstanceWith(p) ==
  /\ nodeEnv \in NodeEnvs
  /\ props = p
  /\ initialState = useRef(TRUE, [on |-> initialOnOf(props)],
                           [on |-> initialOnOf(props)])
  /\ state = initialState
  /\ wasControlled = useRef(TRUE, onIsControlled(props), onIsControlled(props))
  /\ queue = <<>>
  /\ emitted = renderWarnings(nodeEnv, TRUE, props, wasControlled, props, wasControlled)
  /\ lastCall = NoCall
  /\ firstRender = [on |-> initialOnOf(props), controlled |-> onIsControlled(props)]
  /\ toggleCount = 0
  /\ onlyToggled = (~onIsControlled(props) /\ props.reducer = "toggleReducer")

InitInstance == \E p \in PropsSet : InitInstanceWith(p)

\* lines 88-151, a later render: the caller supplies the options p; the
\* refs keep their first values, the queued actions are applied, the
\* effects run.
Render(p) ==
  /\ props' = p
  /\ initialState' = useRef(FALSE, initialState, [on |-> initialOnOf(p)])
  /\ wasControlled' = useRef(FALSE, wasControlled, onIsControlled(p))
  /\ state' = applyQueue(p.reducer, state, queue)
  /\ queue' = <<>>
  /\ emitted' = renderWarnings(nodeEnv, FALSE, props, wasControlled, p, wasControlled')
  /\ lastCall' = NoCall
  /\ onlyToggled' = (onlyToggled /\ ~onIsControlled(p) /\ p.reducer = "toggleReducer")
  /\ toggleCount' = IF onlyToggled' THEN toggleCount ELSE 0
  /\ UNCHANGED <<nodeEnv, firstRender, appVars, reducerVars, builds>>

\* A call of one function of the handle, made with the values of the last
\* render: `fns` are the handlers it runs.
Count(s, x) == Cardinality({i \in 1..Len(s) : s[i] = x})

Call(via, onClick, fns) ==
  LET r == invokeAll(fns, props, state, initialState, NoEffect) IN
  /\ Len(queue) + Len(r.dispatch) <= MaxCallsPerPass
  /\ onlyToggled => toggleCount + Count(r.invoked, "toggle") <= MaxToggles
  /\ queue' = queue \o r.dispatch
  /\ lastCall' = [via |-> via, onClick |-> onClick, invoked |-> r.invoked,
                  reduced |-> r.reduced, onChange |-> r.onChange]
  /\ onlyToggled' = (onlyToggled /\ Count(r.invoked, "reset") = 0)
  /\ toggleCount' = IF onlyToggled' THEN toggleCount + Count(r.invoked, "toggle")
                    ELSE 0
  /\ UNCHANGED <<nodeEnv, props, initialState, state, wasControlled, emitted,
                 firstRender, appVars, reducerVars, builds>>

\* handle.toggle() (line 125)
Toggle ==
  /\ Call("toggle", None, <<Some("toggle")>>)
\* handle.reset() (lines 126-127)
Reset ==
  /\ Call("reset", None, <<Some("reset")>>)
\* getTogglerProps({onClick}).onClick() (lines 129-135)
ClickToggler(onClick) ==
  /\ Call("getTogglerProps", onClick, getTogglerProps(onClick))
\* getResetterProps({onClick}).onClick() (lines 137-142)
ClickResetter(onClick) ==
  /\ Call("getResetterProps", onClick, getResetterProps(onClick))

\* ====================================================================
\* SpecApp: the App component (lines 153-206)
\* ====================================================================
\* The three <Toggle> elements of lines 183, 184 and 198; the first two are
\* bound to bothOn.
Toggles == {1, 2, 3}
Shared == {1, 2}

\* line 168: `timesClicked > 4`
ClickThreshold == 4

\* lines 153-158 with lines 183-184 and 198-202: the options the Toggle
\* element i passes to useToggle when the App state is bothOn = b.
toggleProps(i, b) ==
  [initialOn |-> None, reducer |-> "toggleReducer",
   onChange |-> IF i \in Shared THEN Some("handleToggleChange")
                ELSE Some("console.info"),
   on |-> IF i \in Shared THEN b ELSE None,
   readOnly |-> None]

\* A change handler that never ignores a toggle request.
handleToggleChange_NoVeto(rendered, app, call) ==
  [bothOn |-> None, timesClicked |-> app.timesClicked + 1]

\* lines 167-173: the App state after handleToggleChange(state, action),
\* called by a render whose timesClicked is `rendered`, when the updates
\* queued so far give `app`. setBothOn() is called with no argument.
handleToggleChange(rendered, app, call) ==
  IF call.action.type = actionTypes.toggle /\ rendered > ClickThreshold
  THEN app
  ELSE [bothOn |-> None, timesClicked |-> app.timesClicked + 1]

\* A handler that resets the boolean the way handleToggleChange sets it.
handleResetClick_NoArgument == [bothOn |-> None, timesClicked |-> 0]

\* lines 175-178
handleResetClick == [bothOn |-> Some(FALSE), timesClicked |-> 0]

\* The reported `on` of instance i (lines 115 and 154).
appOn(i) == onOf(toggleProps(i, bothOn), toggles[i].state)

NoClick == [kind |-> "none", instance |-> 0, accepted |-> FALSE,
            timesBefore |-> 0, onBefore |-> <<FALSE, FALSE, FALSE>>]

\* lines 163-206, first render
InitApp ==
  /\ nodeEnv \in NodeEnvs
  /\ bothOn = Some(FALSE)
  /\ timesClicked = 0
  /\ toggles = [i \in Toggles |->
       LET p == toggleProps(i, bothOn) IN
       [initialState |-> useRef(TRUE, [on |-> initialOnOf(p)], [on |-> initialOnOf(p)]),
        state |-> [on |-> initialOnOf(p)],
        wasControlled |-> useRef(TRUE, onIsControlled(p), onIsControlled(p))]]
  /\ appEmitted = [i \in Toggles |->
       renderWarnings(nodeEnv, TRUE, toggleProps(i, bothOn), toggles[i].wasControlled,
                      toggleProps(i, bothOn), toggles[i].wasControlled)]
  /\ lastClick = NoClick

\* The update cycle that follows an event: the App state becomes `app`, and
\* every Toggle renders with its new options; `dispatch` are the actions
\* the event dispatched on instance `target`.
AppRender(app, target, dispatch) ==
  /\ bothOn' = app.bothOn
  /\ timesClicked' = app.timesClicked
  /\ toggles' = [i \in Toggles |->
       LET p == toggleProps(i, app.bothOn) IN
       [initialState |-> useRef(FALSE, toggles[i].initialState, [on |-> initialOnOf(p)]),
        state |-> applyQueue(p.reducer, toggles[i].state,
                             IF i = target THEN dispatch ELSE <<>>),
        wasControlled |-> useRef(FALSE, toggles[i].wasControlled, onIsControlled(p))]]
  /\ appEmitted' = [i \in Toggles |->
       renderWarnings(nodeEnv, FALSE, toggleProps(i, bothOn), toggles[i].wasControlled,
                      toggleProps(i, app.bothOn), toggles'[i].wasControlled)]

RECURSIVE applyOnChange(_, _, _)
applyOnChange(rendered, app, calls) ==
  IF calls = <<>> THEN app
  ELSE applyOnChange(rendered, handleToggleChange(rendered, app, Head(calls)),
                     Tail(calls))

\* A click on the Switch of Toggle i (lines 159-160: getTogglerProps({on}),
\* so the click handler is callAll(undefined, toggle)), and the update cycle
\* that follows.
ClickSwitch(i) ==
  LET p == toggleProps(i, bothOn)
      r == invokeAll(getTogglerProps(None), p, toggles[i].state,
                     toggles[i].initialState, NoEffect)
      now == [bothOn |-> bothOn, timesClicked |-> timesClicked]
      app == IF i \in Shared THEN applyOnChange(timesClicked, now, r.onChange)
             ELSE now
  IN /\ AppRender(app, i, r.dispatch)
     /\ lastClick' = [kind |-> "switch", instance |-> i,
                      accepted |-> (i \in Shared /\ app # now),
                      timesBefore |-> timesClicked,
                      onBefore |-> [j \in Toggles |-> appOn(j)]]
     /\ UNCHANGED <<instanceVars, reducerVars, builds>>

\* A click on the Reset button (line 194) and the update cycle that follows.
ClickReset ==
  /\ AppRender(handleResetClick, 0, <<>>)
  /\ lastClick' = [kind |-> "reset", instance |-> 0, accepted |-> TRUE,
                   timesBefore |-> timesClicked,
                   onBefore |-> [j \in Toggles |-> appOn(j)]]
  /\ UNCHANGED <<instanceVars, reducerVars, builds>>

\* ====================================================================
\* SpecReducer: toggleReducer called directly (lines 18-30)
\* ====================================================================
\* The states and the actions a caller may pass: any tag, with or without
\* an initialState (a reset action of the handle carries one, line 127).
States == {[on |-> b] : b \in BOOLEAN}
ReducerTags == {actionTypes.toggle, actionTypes.reset, "unknown", "TOGGLE"}
ReducerActions ==
  {[type |-> t] : t \in ReducerTags \ {actionTypes.reset}}
  \cup {[type |-> t, initialState |-> s] : t \in ReducerTags, s \in States}

NoReduce == [called |-> FALSE]

InitReducerWith(s) ==
  /\ redState = s
  /\ redLast = NoReduce
  /\ redCount = 0

\* One call toggleReducer(redState, a): the caller keeps what is returned;
\* when the reducer throws nothing is returned and it keeps what it had.
ReducerCall(a) ==
  LET result == toggleReducer(redState, a) IN
  /\ redCount < MaxReduces
  /\ redLast' = [called |-> TRUE, state |-> redState, action |-> a,
                 result |-> result]
  /\ redState' = IF IsThrown(result) THEN redState ELSE result
  /\ redCount' = redCount + 1
  /\ UNCHANGED <<instanceVars, appVars, builds>>

\* ====================================================================
\* SpecBuilds: one instance in a development and in a production build
\* ====================================================================
\* lines 88-151, first render with the options p
mountInstance(env, p) ==
  LET was == useRef(TRUE, onIsControlled(p), onIsControlled(p)) IN
  [props |-> p,
   initialState |-> useRef(TRUE, [on |-> initialOnOf(p)], [on |-> initialOnOf(p)]),
   state |-> [on |-> initialOnOf(p)],
   wasControlled |-> was,
   queue |-> <<>>,
   emitted |-> renderWarnings(env, TRUE, p, was, p, was),
   onChange |-> <<>>]

\* A development build whose render drops the pending actions when it
\* warns.
renderInstance_WarningDropsActions(env, inst, p) ==
  LET was == useRef(FALSE, inst.wasControlled, onIsControlled(p))
      w == renderWarnings(env, FALSE, inst.props, inst.wasControlled, p, was)
  IN [props |-> p,
      initialState |-> useRef(FALSE, inst.initialState, [on |-> initialOnOf(p)]),
      state |-> IF w # <<>> THEN inst.state
                ELSE applyQueue(p.reducer, inst.state, inst.queue),
      wasControlled |-> was,
      queue |-> <<>>,
      emitted |-> w,
      onChange |-> <<>>]

\* lines 88-151, a later render with the options p
renderInstance(env, inst, p) ==
  LET was == useRef(FALSE, inst.wasControlled, onIsControlled(p)) IN
  [props |-> p,
   initialState |-> useRef(FALSE, inst.initialState, [on |-> initialOnOf(p)]),
   state |-> applyQueue(p.reducer, inst.state, inst.queue),
   wasControlled |-> was,
   queue |-> <<>>,
   emitted |-> renderWarnings(env, FALSE, inst.props, inst.wasControlled, p, was),
   onChange |-> <<>>]

\* lines 117-127: a call of handle functions, with the values of the last
\* render
callInstance(inst, fns) ==
  LET r == invokeAll(fns, inst.props, inst.state, inst.initialState, NoEffect)
  IN [inst EXCEPT !.queue = @ \o r.dispatch, !.onChange = r.onChange]

InitBuildsWith(p) == builds = [e \in NodeEnvs |-> mountInstance(e, p)]

\* The caller renders the instance with the options p, in both builds.
BuildsRender(p) ==
  /\ builds' = [e \in NodeEnvs |-> renderInstance(e, builds[e], p)]
  /\ UNCHANGED <<instanceVars, appVars, reducerVars>>

BuildsCall(fns) ==
  /\ \A e \in NodeEnvs :
       Len(callInstance(builds[e], fns).queue) <= MaxCallsPerPass
  /\ builds' = [e \in NodeEnvs |-> callInstance(builds[e], fns)]
  /\ UNCHANGED <<instanceVars, appVars, reducerVars>>

\* handle.toggle() in both builds (line 125)
BuildsToggle ==
  /\ BuildsCall(<<Some("toggle")>>)
\* handle.reset() in both builds (lines 126-127)
BuildsReset ==
  /\ BuildsCall(<<Some("reset")>>)

\* ====================================================================
\* The specifications
\* ====================================================================
\* useToggle() called with no options at all (line 94)
DefaultProps ==
  [initialOn |-> None, reducer |-> "toggleReducer", onChange |-> None,
   on |-> None, readOnly |-> None]

Init ==
  /\ InitInstance /\ InitApp
  /\ InitReducerWith([on |-> FALSE]) /\ InitBuildsWith(DefaultProps)

Next ==
  \/ \E p \in PropsSet : Render(p)
  \/ Toggle
  \/ Reset
  \/ \E f \in OptionOf(OnClicks) : ClickToggler(f)
  \/ \E f \in OptionOf(OnClicks) : ClickResetter(f)

Spec == Init /\ [][Next]_vars

InitAppOnly ==
  /\ InitInstanceWith(DefaultProps) /\ InitApp
  /\ InitReducerWith([on |-> FALSE]) /\ InitBuildsWith(DefaultProps)

NextApp ==
  \/ \E i \in Toggles : ClickSwitch(i)
  \/ ClickReset

SpecApp == InitAppOnly /\ [][NextApp]_vars

InitReducer ==
  /\ InitInstanceWith(DefaultProps) /\ InitApp
  /\ \E s \in States : InitReducerWith(s)
  /\ InitBuildsWith(DefaultProps)

NextReducer == \E a \in ReducerActions : ReducerCall(a)

SpecReducer == InitReducer /\ [][NextReducer]_vars

InitBuilds ==
  /\ InitInstanceWith(DefaultProps) /\ InitApp
  /\ InitReducerWith([on |-> FALSE])
  /\ \E p \in PropsSet : InitBuildsWith(p)

NextBuilds ==
  \/ \E p \in PropsSet : BuildsRender(p)
  \/ BuildsToggle
  \/ BuildsReset

SpecBuilds == InitBuilds /\ [][NextBuilds]_vars

\* ====================================================================
\* Properties of one instance (Spec)
\* ====================================================================
Last(s) == s[Len(s)]

\* A step of Spec that is a render (every call records itself in lastCall).
IsRenderStep == lastCall'.via = "none"

\* The action kind a call on the handle asks for.
RequestedKind(via) ==
  IF via \in {"toggle", "getTogglerProps"} THEN actionTypes.toggle
  ELSE actionTypes.reset

\* C1: an instance that has always been uncontrolled with the default
\* reducer, was constructed with initialOn = false and has only been
\* toggled reports, once the update cycle has run, on = TRUE exactly when
\* the number of toggle() calls is odd.
C1_OnIsToggleParity ==
  (onlyToggled /\ ~firstRender.on /\ queue = <<>>)
    => (on = (toggleCount % 2 = 1))

C1_Witness ==
  /\ onlyToggled /\ ~firstRender.on /\ queue = <<>>
  /\ toggleCount = 3 /\ on = TRUE

\* C2 as stated, for an instance used as intended (the default reducer and
\* the mode of its first render throughout): the update cycle that follows
\* a reset() call reports the initialOn captured at construction, in
\* controlled mode as in uncontrolled mode.
C2_ResetAlwaysRestores ==
  [][(/\ lastCall.invoked # <<>> /\ Last(lastCall.invoked) = "reset"
      /\ IsRenderStep
      /\ props.reducer = "toggleReducer" /\ props'.reducer = "toggleReducer"
      /\ onIsControlled(props) = firstRender.controlled
      /\ onIsControlled(props') = firstRender.controlled)
       => on' = firstRender.on]_vars

\* C2 amended: for an instance that is uncontrolled when reset() is called
\* and in the update cycle that follows, and whose reducer in that cycle is
\* the default one, the cycle reports the initialOn captured at
\* construction, whatever initialOn the cycle supplies; while the instance
\* is controlled the cycle reports the supplied value instead.
C2_ResetRestoresUncontrolled ==
  [][(lastCall.invoked # <<>> /\ Last(lastCall.invoked) = "reset" /\ IsRenderStep)
       => /\ (~onIsControlled(props) /\ ~onIsControlled(props')
               /\ props'.reducer = "toggleReducer") => on' = firstRender.on
          /\ onIsControlled(props') => on' = props'.on[1]]_vars

\* reset() has been called on an uncontrolled instance that reports the
\* opposite of its captured initialOn and was last rendered with another
\* initialOn than the captured one.
C2_Witness ==
  /\ lastCall.via = "reset" /\ ~onIsControlled(props)
  /\ props.reducer = "toggleReducer"
  /\ queue # <<>> /\ Last(queue).type = actionTypes.reset
  /\ on # firstRender.on
  /\ initialOnOf(props) # firstRender.on

\* C3: after a toggle() call on a controlled instance the reported on is
\* still the controlled value last supplied, and no internal update is
\* pending that a later update cycle could apply.
C3_ControlledToggleKeepsOn ==
  (onIsControlled(props) /\ "toggle" \in Range(lastCall.invoked))
    => (on = props.on[1] /\ queue = <<>>)

C3_Witness ==
  /\ onIsControlled(props) /\ lastCall.via = "toggle"
  /\ props.reducer = "toggleReducer"
  /\ state.on # props.on[1]

\* C4: a call of toggle() or reset(), directly or through the click
\* handlers, on an instance with a change callback invokes the callback
\* exactly once, with an action of the requested kind, in either mode.
C4_OnChangeOncePerCall ==
  (lastCall.via # "none" /\ NotNullish(props.onChange))
    => /\ Len(lastCall.onChange) = 1
       /\ lastCall.onChange[1].action.type = RequestedKind(lastCall.via)

C4_Witness ==
  /\ lastCall.via = "reset" /\ NotNullish(props.onChange)
  /\ ~onIsControlled(props)
  /\ Len(lastCall.onChange) = 1
  /\ lastCall.onChange[1].action.type = actionTypes.reset

\* C5: the click handler of getTogglerProps({onClick: f}) runs f and then
\* the internal toggle, each once and in that order; the handler of
\* getResetterProps({onClick: f}) runs f and then the internal reset.
C5_CallerHandlerThenInternal ==
  /\ (lastCall.via = "getTogglerProps" /\ lastCall.onClick # None)
       => lastCall.invoked = <<lastCall.onClick[1], "toggle">>
  /\ (lastCall.via = "getResetterProps" /\ lastCall.onClick # None)
       => lastCall.invoked = <<lastCall.onClick[1], "reset">>

C5_Witness ==
  /\ lastCall.via = "getTogglerProps" /\ lastCall.onClick = Some("g")
  /\ lastCall.invoked = <<"g", "toggle">>
  /\ queue # <<>> /\ Last(queue).type = actionTypes.toggle

\* The mode-switch warnings among the warnings of one render.
SwitchWarnings(e) == SelectSeq(e, LAMBDA w : w \in {SwitchToControlled, SwitchToUncontrolled})
ReadOnlyWarnings(e) == SelectSeq(e, LAMBDA w : w = ReadOnlyWarning)

\* C6 as stated: in a development build every update cycle that switches
\* the instance to controlled emits exactly one mode-switch warning, and
\* every cycle that switches it back to uncontrolled emits exactly one too.
C6_EverySwitchWarnsOnce ==
  [][(nodeEnv = "development" /\ IsRenderStep)
       => /\ (~onIsControlled(props) /\ onIsControlled(props'))
               => SwitchWarnings(emitted') = <<SwitchToControlled>>
          /\ (onIsControlled(props) /\ ~onIsControlled(props'))
               => SwitchWarnings(emitted') = <<SwitchToUncontrolled>>]_vars

\* C6 amended: in a development build an update cycle that changes the
\* mode emits exactly one mode-switch warning when the new mode differs
\* from the mode of the first render, and none when it returns the instance
\* to the mode of its first render; a cycle that keeps the mode emits none.
C6_SwitchAwayFromFirstModeWarnsOnce ==
  [][(nodeEnv = "development" /\ IsRenderStep)
       => SwitchWarnings(emitted') =
            IF onIsControlled(props') = onIsControlled(props) THEN <<>>
            ELSE IF onIsControlled(props') = firstRender.controlled THEN <<>>
            ELSE IF onIsControlled(props') THEN <<SwitchToControlled>>
            ELSE <<SwitchToUncontrolled>>]_vars

\* An instance first rendered uncontrolled has just been switched to
\* controlled and the warning was emitted.
C6_Witness ==
  /\ nodeEnv = "development" /\ ~firstRender.controlled
  /\ onIsControlled(props)
  /\ SwitchWarnings(emitted) = <<SwitchToControlled>>

\* The read-only warning is due for the configuration p.
ReadOnlyDue(p) == onIsControlled(p) /\ p.onChange = None /\ p.readOnly # Some(TRUE)

\* C7: in a development build a render emits exactly one read-only warning
\* when the instance is controlled with neither a change callback nor the
\* read-only flag set and it is the first render or one of the relevant
\* inputs (mode, change callback, read-only flag) changed; it emits none
\* otherwise, so never while a change callback or the read-only flag is
\* supplied.
C7_ReadOnlyState ==
  /\ Len(ReadOnlyWarnings(emitted)) <= 1
  /\ ReadOnlyWarnings(emitted) # <<>> => (nodeEnv = "development" /\ ReadOnlyDue(props))

C7_ReadOnlyStep ==
  (nodeEnv = "development" /\ IsRenderStep)
    => Len(ReadOnlyWarnings(emitted')) =
         IF /\ ReadOnlyDue(props')
            /\ \/ onIsControlled(props') # onIsControlled(props)
               \/ props'.onChange # props.onChange
               \/ props'.readOnly # props.readOnly
         THEN 1 ELSE 0

C7_ReadOnlyWarningPerInputChange ==
  /\ Init => (nodeEnv = "development" /\ ReadOnlyDue(props)
                => ReadOnlyWarnings(emitted) = <<ReadOnlyWarning>>)
  /\ []C7_ReadOnlyState
  /\ [][C7_ReadOnlyStep]_vars

\* An instance first rendered uncontrolled is now controlled, without a
\* change callback and with readOnly = false, and its last render warned.
C7_Witness ==
  /\ nodeEnv = "development" /\ ReadOnlyDue(props)
  /\ ~firstRender.controlled
  /\ props.readOnly = Some(FALSE) /\ lastCall = NoCall
  /\ ReadOnlyWarnings(emitted) = <<ReadOnlyWarning>>

\* C12: in a production build no render emits a warning, whatever the
\* configurations, mode changes and calls that preceded it.
C12_NoWarningInProduction ==
  nodeEnv = "production" => emitted = <<>>

\* A production instance first rendered uncontrolled has just been rendered
\* controlled, without change callback nor readOnly: both warnings would
\* be due in a development build.
C12_Witness ==
  /\ nodeEnv = "production" /\ lastCall = NoCall
  /\ ~firstRender.controlled /\ onIsControlled(props)
  /\ ReadOnlyDue(props)
  /\ state # initialState
  /\ emitted = <<>>

\* C14: on a controlled instance with the default reducer, a toggle() hands
\* the change callback a state whose on is the negation of the controlled
\* value supplied, whatever the internal state holds.
C14_NewStateFromEffectiveOn ==
  (/\ onIsControlled(props) /\ props.reducer = "toggleReducer"
   /\ NotNullish(props.onChange)
   /\ lastCall.via \in {"toggle", "getTogglerProps"})
    => /\ Len(lastCall.onChange) = 1
       /\ lastCall.onChange[1].state = [on |-> ~props.on[1]]

\* The internal state differs from the controlled value.
C14_Witness ==
  /\ onIsControlled(props) /\ props.reducer = "toggleReducer"
  /\ lastCall.via = "toggle" /\ lastCall.onChange # <<>>
  /\ state.on # props.on[1]
  /\ lastCall.onChange[1].state.on = state.on

\* C15: while the instance is controlled no action is pending, so a call of
\* toggle() or reset() leaves the internal state as it was; a render of a
\* controlled instance that stays controlled keeps the reducer state,
\* whatever controlled value it supplies; and the reducer state changes
\* only in a render that applies actions dispatched while the instance was
\* uncontrolled.
C15_ControlledState ==
  onIsControlled(props) => queue = <<>>

C15_ControlledStep ==
  /\ (onIsControlled(props) /\ onIsControlled(props')) => state' = state
  /\ onIsControlled(props) => (queue' = queue /\ state' = state)
  /\ state' # state => (~onIsControlled(props) /\ queue # <<>> /\ IsRenderStep)

C15_InternalStateUntouchedWhileControlled ==
  []C15_ControlledState /\ [][C15_ControlledStep]_vars

\* reset() has been called on a controlled instance whose internal state is
\* neither the controlled value nor the initial state.
C15_Witness ==
  /\ onIsControlled(props) /\ lastCall.via = "reset"
  /\ state # initialState /\ state.on # props.on[1]
  /\ queue = <<>>

\* The state the next render reports if it keeps the default reducer.
PendingState == applyQueue("toggleReducer", state, queue)

\* C17 as stated: on an uncontrolled instance with the default reducer the
\* state handed to the change callback by a call is the internal state
\* that results from applying the actions dispatched so far, that call's
\* included, also when it is not the first call of the event pass.
C17_CallbackStateIsResultingState ==
  (/\ ~onIsControlled(props) /\ props.reducer = "toggleReducer"
   /\ lastCall.onChange # <<>>)
    => lastCall.onChange[1].state = PendingState

\* C19: with the default reducer, every action a call on the handle passes
\* to the reducer or dispatches has the tag toggle or reset, a reset action
\* carries the initial state captured by the first render, and the reducer
\* does not fail on it.
KnownAction(a) ==
  /\ a.type \in {actionTypes.toggle, actionTypes.reset}
  /\ a.type = actionTypes.reset => a.initialState = [on |-> firstRender.on]

C19_HandlePassesKnownActions ==
  /\ \A i \in 1..Len(queue) : KnownAction(queue[i])
  /\ \A i \in 1..Len(lastCall.reduced) :
       /\ KnownAction(lastCall.reduced[i].action)
       /\ props.reducer = "toggleReducer" => ~IsThrown(lastCall.reduced[i].result)
  /\ lastCall.via # "none" => Len(lastCall.reduced) = 1
  /\ ~IsThrown(state)

\* The resetter's click handler has been run, after a render that supplied
\* another initialOn than the one captured.
C19_Witness ==
  /\ lastCall.via = "getResetterProps" /\ lastCall.onClick # None
  /\ props.reducer = "toggleReducer" /\ ~onIsControlled(props)
  /\ initialOnOf(props) # firstRender.on
  /\ Len(lastCall.reduced) = 1
  /\ lastCall.reduced[1].action.type = actionTypes.reset
  /\ Len(queue) = 2

\* ====================================================================
\* Properties of the App (SpecApp)
\* ====================================================================
\* C8 as stated: the two instances bound to bothOn always report the same
\* on, and after a click the shared callback accepted both report the
\* negation of what the clicked instance reported before it.
C8_SharedInstancesInLockstep ==
  /\ appOn(1) = appOn(2)
  /\ (lastClick.kind = "switch" /\ lastClick.instance \in Shared /\ lastClick.accepted)
       => \A i \in Shared : appOn(i) = ~lastClick.onBefore[lastClick.instance]

\* C9 as stated: a click on a shared instance made when five toggles have
\* been accepted (timesClicked > 4) changes the reported on of neither
\* shared instance.
C9_IgnoredAfterFiveToggles ==
  (/\ lastClick.kind = "switch" /\ lastClick.instance \in Shared
   /\ lastClick.timesBefore > ClickThreshold)
    => \A i \in Shared : appOn(i) = lastClick.onBefore[i]

\* C10: after a click on the Reset button the click counter is zero and
\* both shared instances report on = FALSE.
C10_ResetZeroesCounterAndOn ==
  lastClick.kind = "reset"
    => (timesClicked = 0 /\ \A i \in Shared : appOn(i) = FALSE)

\* Reset has been clicked with the counter at five while a shared instance
\* reported on = TRUE.
C10_Witness ==
  /\ lastClick.kind = "reset" /\ lastClick.timesBefore = 5
  /\ \E i \in Shared : lastClick.onBefore[i] = TRUE
  /\ timesClicked = 0 /\ appOn(1) = FALSE /\ appOn(2) = FALSE

\* C16 as stated: in the App the shared value is a boolean in every
\* reachable state, both instances bound to it are controlled, and no
\* render of them emits a mode-switch warning.
C16_SharedValueStaysBoolean ==
  /\ bothOn \in {Some(TRUE), Some(FALSE)}
  /\ \A i \in Shared :
       /\ onIsControlled(toggleProps(i, bothOn))
       /\ SwitchWarnings(appEmitted[i]) = <<>>

\* C18: the App's click counter stays within 0..5; a step changes it only
\* by adding one on a click whose change the handler accepted, made while
\* the counter was below 5, or by zeroing it on a click of Reset.
C18_CounterStep ==
  timesClicked' # timesClicked =>
    \/ /\ lastClick'.kind = "switch" /\ lastClick'.accepted
       /\ lastClick'.instance \in Shared
       /\ timesClicked <= ClickThreshold
       /\ timesClicked' = timesClicked + 1
    \/ /\ lastClick'.kind = "reset"
       /\ timesClicked' = 0

C18_ClickCounterWithinBounds ==
  /\ [](timesClicked \in 0..(ClickThreshold + 1))
  /\ [][C18_CounterStep]_vars

\* A click on a shared Switch has been ignored with the counter at its
\* greatest value.
C18_Witness ==
  /\ timesClicked = ClickThreshold + 1
  /\ lastClick.kind = "switch" /\ lastClick.instance \in Shared
  /\ lastClick.timesBefore = ClickThreshold + 1
  /\ ~lastClick.accepted

\* ====================================================================
\* Properties of the reducer (SpecReducer)
\* ====================================================================
KnownTags == {actionTypes.toggle, actionTypes.reset}

\* C11: a call of the default reducer fails, with the unsupported-type
\* error naming the tag and without returning a state, exactly when the
\* action's tag is neither toggle nor reset; for the two known tags it
\* returns a state.
C11_ThrowsExactlyOnUnknownTags ==
  redLast.called =>
    /\ redLast.action.type \notin KnownTags
         => /\ redLast.result = Thrown(redLast.action.type)
            /\ redLast.result \notin States
            /\ redState = redLast.state
    /\ redLast.action.type \in KnownTags
         => /\ ~IsThrown(redLast.result)
            /\ redLast.result \in States
            /\ redState = redLast.result
    /\ redState \in States

\* The reducer has failed on an unknown tag after it had changed the state.
C11_Witness ==
  /\ redLast.called /\ redLast.action.type = "unknown"
  /\ IsThrown(redLast.result)
  /\ redCount >= 2 /\ redState.on

\* ====================================================================
\* Properties of the two builds (SpecBuilds)
\* ====================================================================
\* What an instance lets its caller observe: the reported on, the reducer
\* state with the actions pending on it, and the change-callback calls.
Observed(inst) ==
  [on |-> onOf(inst.props, inst.state), state |-> inst.state,
   pending |-> inst.queue, onChange |-> inst.onChange]

\* C13: run by the same renders and the same toggle()/reset() calls, the
\* instance of the development build and the instance of the production
\* build report the same on, hold the same internal state and make the
\* same change-callback invocations in every state.
C13_BuildsBehaveAlike ==
  Observed(builds["development"]) = Observed(builds["production"])

\* The development build has warned in its last render where the
\* production build was silent, on an instance whose state has changed,
\* and a call has since dispatched and invoked the change callback.
C13_Witness ==
  /\ builds["development"].emitted # <<>>
  /\ builds["production"].emitted = <<>>
  /\ builds["development"].state # builds["development"].initialState
  /\ builds["development"].queue # <<>>
  /\ builds["development"].onChange # <<>>

====
